---- MODULE Spec2Model ----
(***************************************************************************)
(* Model of src/server.js: an Express server that keeps a coin balance and *)
(* per-game scores per player in the Firestore collection "players" and an *)
(* append-only log of balance changes in the collection "playerEvents".    *)
(*                                                                         *)
(* JavaScript values: a request field or document field that is missing    *)
(* (undefined) is the empty tuple, a present value v is the tuple <<v>>.   *)
(* A phone string is the sequence of its characters.                       *)
(* The updatedAt / createdAt server timestamps are not modelled.           *)
(***************************************************************************)
EXTENDS Integers, Sequences, FiniteSets, TLC

\* ------------------------------------------------------------------ bounds
\* Requests the clients send in one behaviour.
MaxRequests == 3
\* Transactions (runTransaction calls) that can be in flight at once.
MaxInFlight == 2
\* Attempts runTransaction makes before it gives up (the library's
\* maxAttempts; its default is larger, the handlers pass no option).
MaxAttempts == 2

\* ------------------------------------------------------------ JS values
Undefined == <<>>
Some(v) == <<v>>
Val(x) == x[1]

\* !x for x a number or undefined: undefined and 0 are falsy.
FalsyNum(x) == x = Undefined \/ Val(x) = 0
\* !x for x a string or undefined: undefined and "" are falsy.
FalsyStr(x) == x = Undefined \/ Val(x) = ""
\* !x for x a phone (a sequence of characters) or undefined.
FalsyPhone(x) == x = Undefined \/ Val(x) = <<>>
\* x || d
OrElse(x, d) == IF FalsyNum(x) THEN d ELSE Val(x)
OrElseStr(x, d) == IF FalsyStr(x) THEN d ELSE Val(x)
Max(a, b) == IF a >= b THEN a ELSE b

\* ------------------------------------------------------------ inputs
Digits == {"0", "1", "2", "3", "4", "5", "6", "7", "8", "9"}
\* Raw phone values of request bodies: missing, "a", "5", "5-".
RawPhones ==
  { Undefined, Some(<<"a">>), Some(<<"5">>), Some(<<"5", "-">>) }
Names == { Undefined, Some("Ann") }
GameIds == { Undefined, Some("run"), Some("jump") }
Scores == { Undefined, Some(-1), Some(2) }
Coins == { Undefined, Some(-1), Some(2) }
Amounts == { Undefined, Some(0), Some(-1), Some(1), Some(2) }
Reasons == { Undefined, Some("gift") }
\* What a request presents to the gate: the x-bin-secret header and the
\* secret query parameter.
NoSecret == [header |-> Undefined, query |-> Undefined]
Secrets ==
  { [header |-> h, query |-> q] :
      h \in { Undefined, Some("s"), Some("x") }, q \in { Undefined, Some("s") } }
\* process.env.BIN_SECRET: not set, or set to "s".
BinSecrets == { Undefined, Some("s") }

\* const normalizePhone = (p = "") => p.replace(/[^0-9+]/g, "")
KeepChar(c) == c \in Digits \cup {"+"}
normalizePhone(p) ==
  IF p = Undefined THEN <<>> ELSE SelectSeq(Val(p), KeepChar)

\* Document ids of the players collection that the inputs can address.
Keys == { normalizePhone(p) : p \in RawPhones } \ { <<>> }
Games == { Val(g) : g \in GameIds \ { Undefined } }

\* ------------------------------------------------------------ documents
(***************************************************************************)
(* A document of the players collection.  set(data, {merge: true}) takes   *)
(* every key of data as the name of one field, so the award handler stores *)
(* top-level fields named "partyScores.<gameId>.lastScore" and             *)
(* "partyScores.<gameId>.bestScore": lastScore[g] and bestScore[g] below.  *)
(* partyScores is the map field of that name, which DocumentSnapshot.get   *)
(* descends when it is given the dotted path; no handler writes it.        *)
(***************************************************************************)
NoScores == [g \in Games |-> Undefined]
NoDoc ==
  [exists |-> FALSE, name |-> Undefined, phone |-> Undefined,
   coins |-> Undefined, lastSource |-> Undefined,
   lastScore |-> NoScores, bestScore |-> NoScores, partyScores |-> Undefined]

\* `party:${gameId}`
PartySource(g) == "party:" \o g

\* A request: its body (for GET /coins its query), where the fields an
\* endpoint does not read are Undefined, and what it presents to the gate.
Request(op, name, phone, gameId, score, coins, amount, reason, secret) ==
  [op |-> op, name |-> name, phone |-> phone, gameId |-> gameId,
   score |-> score, coins |-> coins, amount |-> amount, reason |-> reason,
   secret |-> secret]
NoRequest ==
  Request("none", Undefined, Undefined, Undefined, Undefined, Undefined,
          Undefined, Undefined, NoSecret)
\* The requests of Spec present no secret.
RegisterRequests ==
  { Request("register", n, p, Undefined, Undefined, Undefined, Undefined,
            Undefined, NoSecret) : n \in Names, p \in RawPhones }
PartyRequests ==
  { Request("partyResult", Undefined, x[1], x[2], x[3], x[4], Undefined,
            Undefined, NoSecret) : x \in RawPhones \X GameIds \X Scores \X Coins }
SpendRequests ==
  { Request("spend", Undefined, x[1], Undefined, Undefined, Undefined, x[2],
            x[3], NoSecret) : x \in RawPhones \X Amounts \X Reasons }
CoinsRequests ==
  { Request("coins", Undefined, p, Undefined, Undefined, Undefined, Undefined,
            Undefined, NoSecret) : p \in RawPhones }

\* res.status(s).json({error: e}) or res.json({ok: true}) (status 200),
\* with the endpoint and the validated fields of the request it answers;
\* coins is the body {coins: n} of a GET /coins answer.
Response(r, status, error) ==
  [op |-> r.op, phone |-> r.phone, gameId |-> r.gameId, amount |-> r.amount,
   secret |-> r.secret, status |-> status, error |-> error, coins |-> Undefined]
\* res.json({coins: n})
CoinsResponse(r, n) == [Response(r, 200, "") EXCEPT !.coins = Some(n)]

\* ------------------------------------------------- transaction callbacks
\* FieldValue.increment(n) applied to a field: a missing field counts as 0.
IncrementOverwrite(field, n) == Some(n)
Increment(field, n) == Some((IF field = Undefined THEN 0 ELSE Val(field)) + n)

\* snap.get(`partyScores.${gameId}.bestScore`): the path is split at its
\* dots and resolved through the map field partyScores.
SnapGetBestPath(snap, g) ==
  IF snap.partyScores = Undefined THEN Undefined
  ELSE Val(snap.partyScores)[g].bestScore

\* snap.exists && snap.get(bestPath) ? snap.get(bestPath) : 0
CurrentBest(snap, g) ==
  IF snap.exists /\ ~FalsyNum(SnapGetBestPath(snap, g))
  THEN Val(SnapGetBestPath(snap, g)) ELSE 0

\* Math.max(currentBest, score || 0)
NewBest(snap, r) == Max(CurrentBest(snap, Val(r.gameId)), OrElse(r.score, 0))

\* tx.set(docRef, {...}, {merge: true}) of /partyResult, applied at commit
\* to the document cur; snap is what tx.get returned.
PartyDoc(cur, snap, r) ==
  [cur EXCEPT !.exists = TRUE,
              !.lastScore[Val(r.gameId)] = Some(OrElse(r.score, 0)),
              !.bestScore[Val(r.gameId)] = Some(NewBest(snap, r)),
              !.coins = Increment(cur.coins, OrElse(r.coins, 0)),
              !.lastSource = Some(PartySource(Val(r.gameId)))]

\* tx.set(events.doc(), {...}) of /partyResult
PartyEvent(key, r) ==
  [phone |-> key, source |-> PartySource(Val(r.gameId)),
   score |-> Some(OrElse(r.score, 0)), amount |-> OrElse(r.coins, 0)]

\* snap.exists && snap.get("coins") ? snap.get("coins") : 0
Balance(snap) ==
  IF snap.exists /\ ~FalsyNum(snap.coins) THEN Val(snap.coins) ELSE 0

\* if (balance < amount) return false
InsufficientOffByOne(snap, r) == Balance(snap) + 1 < Val(r.amount)
Insufficient(snap, r) == Balance(snap) < Val(r.amount)

\* tx.update(docRef, {...}) of /spend, applied at commit to the document cur
SpendDoc(cur, r) ==
  [cur EXCEPT !.coins = Increment(cur.coins, 0 - Val(r.amount)),
              !.lastSource = Some(OrElseStr(r.reason, "spend"))]

\* tx.set(events.doc(), {...}) of /spend
SpendEventUnsigned(key, r) ==
  [phone |-> key, source |-> OrElseStr(r.reason, "spend"),
   score |-> Undefined, amount |-> Val(r.amount)]
SpendEvent(key, r) ==
  [phone |-> key, source |-> OrElseStr(r.reason, "spend"),
   score |-> Undefined, amount |-> 0 - Val(r.amount)]

\* snap.exists ? snap.get("coins") || 0 : 0
QueryCoinsZero(snap) == 0
QueryCoins(snap) == IF snap.exists THEN OrElse(snap.coins, 0) ELSE 0

\* name left out of the write when the request has none: merge keeps the old.
RegisterDocKeepName(cur, key, r) ==
  [cur EXCEPT !.exists = TRUE,
              !.name = IF FalsyStr(r.name) THEN cur.name ELSE r.name,
              !.phone = Some(key), !.lastSource = Some("registration")]

\* docRef.set({...}) without merge would replace the whole document.
RegisterDocReplace(cur, key, r) ==
  [NoDoc EXCEPT !.exists = TRUE, !.name = Some(OrElseStr(r.name, "")),
                !.phone = Some(key), !.lastSource = Some("registration")]
\* docRef.set({...}, {merge: true}) of /register
RegisterDoc(cur, key, r) ==
  [cur EXCEPT !.exists = TRUE,
              !.name = Some(OrElseStr(r.name, "")),
              !.phone = Some(key),
              !.lastSource = Some("registration")]

\* ------------------------------------------------------------ state
Procs == 1 .. MaxInFlight
IdleTx ==
  [pc |-> "idle", req |-> NoRequest, key |-> <<>>, snap |-> NoDoc,
   conflict |-> FALSE, attempt |-> 0]

VARIABLES
  players,   \* collection "players": document id -> document
  events,    \* collection "playerEvents", in creation order
  tx,        \* the runTransaction call of each handler in flight
  issued,    \* requests received so far
  last,      \* the latest response sent, with the request it answers
  acked,     \* history: the awards and spends answered {ok: true}, in order
  serial,    \* history: the requests applied one at a time in commit order
  binSecret  \* process.env.BIN_SECRET

vars == <<players, events, tx, issued, last, acked, serial, binSecret>>

\* serial before any request: docs are the documents, n counts the requests
\* applied, req is the latest of them and status the status it answers.
NoSerial(keys) ==
  [docs |-> [k \in keys |-> NoDoc], status |-> 0, n |-> 0, req |-> NoRequest]

Init ==
  /\ players = [k \in Keys |-> NoDoc]
  /\ events = <<>>
  /\ tx = [i \in Procs |-> IdleTx]
  /\ issued = 0
  /\ last = Response(NoRequest, 0, "")
  /\ acked = <<>>
  /\ serial = NoSerial(Keys)
  /\ binSecret \in BinSecrets

\* ------------------------------------------------------------ store
\* The Firestore backend refuses the commit of a transaction when a document
\* it read was written by someone else after the read.
NoConflict(t) == FALSE
Conflict(t) == t.conflict

\* A committed write to document key by anyone but transaction i makes every
\* other transaction that has read the document conflict.
MarkConflicts(i, key) ==
  [j \in Procs |->
     IF j # i /\ tx[j].pc = "commit" /\ tx[j].key = key
     THEN [tx[j] EXCEPT !.conflict = TRUE] ELSE tx[j]]

\* The writes a failed attempt leaves in the store: tx.set and tx.update only
\* buffer their writes in the transaction, which the retry throws away.
AbortedEventsKept(t) ==
  IF t.req.op = "partyResult" THEN <<PartyEvent(t.key, t.req)>>
  ELSE IF ~Insufficient(t.snap, t.req) THEN <<SpendEvent(t.key, t.req)>>
  ELSE <<>>
AbortedEvents(t) == <<>>

\* runTransaction runs the callback again while attempts remain.
CanRetryForever(t) == TRUE
CanRetry(t) == t.attempt < MaxAttempts

\* events.doc() names a new document, so tx.set(events.doc(), e) adds e to
\* the collection and touches no event that is there.
OverwriteEvent(es, e) ==
  IF es = <<>> THEN <<e>> ELSE [es EXCEPT ![Len(es)] = e]
AppendEvent(es, e) == Append(es, e)

\* requireSecret: next() is called (TRUE) or 401 is answered (FALSE).
\* provided = req.headers["x-bin-secret"] || req.query.secret
Provided(secret) ==
  IF ~FalsyStr(secret.header) THEN secret.header ELSE secret.query
requireSecretOpen(secret) == TRUE
requireSecret(secret) == FalsyStr(binSecret) \/ Provided(secret) = binSecret

\* The lowest free transaction slot.
FreeSlot == CHOOSE i \in Procs : tx[i].pc = "idle" /\ \A j \in 1 .. i - 1 : tx[j].pc # "idle"
\* db.runTransaction(callback): the callback closes over phoneNorm (key) and
\* the fields of the body; the raw phone is not used after normalizePhone.
BeginTx(r, key) ==
  [pc |-> "get", req |-> [r EXCEPT !.phone = Some(key)], key |-> key,
   snap |-> NoDoc, conflict |-> FALSE, attempt |-> 1]

\* One request applied with no other request in flight: what the handler's
\* store operation does to the document d, and the status it answers.
SerialApply(d, key, r) ==
  IF r.op = "register" THEN [doc |-> RegisterDoc(d, key, r), status |-> 200]
  ELSE IF r.op = "partyResult" THEN [doc |-> PartyDoc(d, d, r), status |-> 200]
  ELSE IF Insufficient(d, r) THEN [doc |-> d, status |-> 400]
  ELSE IF ~d.exists THEN [doc |-> d, status |-> 500]
  ELSE [doc |-> SpendDoc(d, r), status |-> 200]
\* serial after the request r on document key commits.
SerialStep(key, r) ==
  [docs |-> [serial.docs EXCEPT ![key] = SerialApply(@, key, r).doc],
   status |-> SerialApply(serial.docs[key], key, r).status,
   n |-> serial.n + 1,
   req |-> [r EXCEPT !.phone = Some(key)]]

\* ------------------------------------------------------------ handlers
\* app.post("/register", requireSecret, ...)
RegisterRoute(r) ==
  /\ issued' = issued + 1
  /\ IF ~requireSecret(r.secret)
     THEN /\ last' = Response(r, 401, "unauthorized")
          /\ UNCHANGED <<binSecret, players, events, tx, acked, serial>>
     ELSE IF FalsyPhone(r.phone)
     THEN /\ last' = Response(r, 400, "phone required")
          /\ UNCHANGED <<binSecret, players, events, tx, acked, serial>>
     ELSE IF normalizePhone(r.phone) = <<>>
     THEN \* players.doc("") throws; the catch block answers 500
          /\ last' = Response(r, 500, "invalid document path")
          /\ UNCHANGED <<binSecret, players, events, tx, acked, serial>>
     ELSE LET key == normalizePhone(r.phone) IN
          /\ players' = [players EXCEPT ![key] = RegisterDoc(@, key, r)]
          /\ tx' = MarkConflicts(0, key)
          /\ serial' = SerialStep(key, r)
          /\ last' = Response(r, 200, "")
          /\ UNCHANGED <<binSecret, events, acked>>

\* The clients send at most MaxRequests requests.
Register(r) == issued < MaxRequests /\ RegisterRoute(r)

\* app.post("/partyResult", ...) up to the call of db.runTransaction
PartyResultRoute(r) ==
  /\ issued' = issued + 1
  /\ IF ~requireSecret(r.secret)
     THEN /\ last' = Response(r, 401, "unauthorized")
          /\ UNCHANGED <<binSecret, players, events, tx, acked, serial>>
     ELSE IF FalsyPhone(r.phone) \/ FalsyStr(r.gameId)
     THEN /\ last' = Response(r, 400, "phone and gameId required")
          /\ UNCHANGED <<binSecret, players, events, tx, acked, serial>>
     ELSE IF normalizePhone(r.phone) = <<>>
     THEN /\ last' = Response(r, 500, "invalid document path")
          /\ UNCHANGED <<binSecret, players, events, tx, acked, serial>>
     ELSE /\ \E i \in Procs : tx[i].pc = "idle"
          /\ tx' = [tx EXCEPT ![FreeSlot] = BeginTx(r, normalizePhone(r.phone))]
          /\ UNCHANGED <<binSecret, players, events, last, acked, serial>>

PartyResult(r) == issued < MaxRequests /\ PartyResultRoute(r)

\* app.post("/spend", ...) up to the call of db.runTransaction
SpendRoute(r) ==
  /\ issued' = issued + 1
  /\ IF ~requireSecret(r.secret)
     THEN /\ last' = Response(r, 401, "unauthorized")
          /\ UNCHANGED <<binSecret, players, events, tx, acked, serial>>
     ELSE IF FalsyPhone(r.phone) \/ FalsyNum(r.amount)
     THEN /\ last' = Response(r, 400, "phone and amount required")
          /\ UNCHANGED <<binSecret, players, events, tx, acked, serial>>
     ELSE IF normalizePhone(r.phone) = <<>>
     THEN /\ last' = Response(r, 500, "invalid document path")
          /\ UNCHANGED <<binSecret, players, events, tx, acked, serial>>
     ELSE /\ \E i \in Procs : tx[i].pc = "idle"
          /\ tx' = [tx EXCEPT ![FreeSlot] = BeginTx(r, normalizePhone(r.phone))]
          /\ UNCHANGED <<binSecret, players, events, last, acked, serial>>

Spend(r) == issued < MaxRequests /\ SpendRoute(r)

\* app.get("/coins", ...)
CoinsRoute(r) ==
  /\ issued' = issued + 1
  /\ UNCHANGED <<binSecret, players, events, tx, acked, serial>>
  /\ IF ~requireSecret(r.secret)
     THEN last' = Response(r, 401, "unauthorized")
     ELSE IF normalizePhone(r.phone) = <<>>
     THEN last' = Response(r, 400, "phone required")
     ELSE last' = CoinsResponse(r, QueryCoins(players[normalizePhone(r.phone)]))
GetCoins(r) == issued < MaxRequests /\ CoinsRoute(r)

\* const snap = await tx.get(docRef)
TxGet(i) ==
  /\ tx[i].pc = "get"
  /\ tx' = [tx EXCEPT ![i].snap = players[tx[i].key], ![i].conflict = FALSE,
                      ![i].pc = "commit"]
  /\ UNCHANGED <<binSecret, players, events, issued, last, acked, serial>>

\* The rest of the /partyResult callback, the commit and res.json({ok: true})
PartyCommit(i) ==
  LET t == tx[i] IN
  /\ t.pc = "commit" /\ t.req.op = "partyResult" /\ ~Conflict(t)
  /\ players' = [players EXCEPT ![t.key] = PartyDoc(@, t.snap, t.req)]
  /\ events' = AppendEvent(events, PartyEvent(t.key, t.req))
  /\ tx' = [MarkConflicts(i, t.key) EXCEPT ![i] = IdleTx]
  /\ last' = Response(t.req, 200, "")
  /\ acked' = Append(acked, [req |-> t.req, key |-> t.key, attempt |-> t.attempt])
  /\ serial' = SerialStep(t.key, t.req)
  /\ UNCHANGED <<binSecret, issued>>

\* The rest of the /spend callback, the commit and the response
SpendCommit(i) ==
  LET t == tx[i] IN
  /\ t.pc = "commit" /\ t.req.op = "spend" /\ ~Conflict(t)
  /\ serial' = SerialStep(t.key, t.req)
  /\ UNCHANGED <<binSecret, issued>>
  /\ IF Insufficient(t.snap, t.req)
     THEN \* return false: nothing to write; if (!ok) answers 400
          /\ tx' = [tx EXCEPT ![i] = IdleTx]
          /\ last' = Response(t.req, 400, "insufficient funds")
          /\ UNCHANGED <<binSecret, players, events, acked>>
     ELSE IF ~players[t.key].exists
     THEN \* tx.update of a document that does not exist fails the commit
          \* with NOT_FOUND, which is not retried; the catch answers 500
          /\ tx' = [tx EXCEPT ![i] = IdleTx]
          /\ last' = Response(t.req, 500, "not found")
          /\ UNCHANGED <<binSecret, players, events, acked>>
     ELSE /\ players' = [players EXCEPT ![t.key] = SpendDoc(@, t.req)]
          /\ events' = AppendEvent(events, SpendEvent(t.key, t.req))
          /\ tx' = [MarkConflicts(i, t.key) EXCEPT ![i] = IdleTx]
          /\ last' = Response(t.req, 200, "")
          /\ acked' = Append(acked, [req |-> t.req, key |-> t.key, attempt |-> t.attempt])

\* The commit is refused: runTransaction runs the callback again
TxRetry(i) ==
  LET t == tx[i] IN
  /\ t.pc = "commit" /\ Conflict(t) /\ CanRetry(t)
  /\ tx' = [tx EXCEPT ![i].pc = "get", ![i].attempt = t.attempt + 1,
                      ![i].conflict = FALSE, ![i].snap = NoDoc]
  /\ events' = events \o AbortedEvents(t)
  /\ UNCHANGED <<binSecret, players, issued, last, acked, serial>>

\* The commit is refused on the last attempt: runTransaction rejects and the
\* catch block answers 500
TxExhausted(i) ==
  LET t == tx[i] IN
  /\ t.pc = "commit" /\ Conflict(t) /\ ~CanRetry(t)
  /\ tx' = [tx EXCEPT ![i] = IdleTx]
  /\ events' = events \o AbortedEvents(t)
  /\ last' = Response(t.req, 500, "contention")
  /\ UNCHANGED <<binSecret, players, issued, acked, serial>>

Next ==
  \/ \E r \in RegisterRequests : Register(r)
  \/ \E r \in PartyRequests : PartyResult(r)
  \/ \E r \in SpendRequests : Spend(r)
  \/ \E r \in CoinsRequests : GetCoins(r)
  \/ \E i \in Procs : TxGet(i)
  \/ \E i \in Procs : PartyCommit(i)
  \/ \E i \in Procs : SpendCommit(i)
  \/ \E i \in Procs : TxRetry(i)
  \/ \E i \in Procs : TxExhausted(i)

Spec == Init /\ [][Next]_vars

\* ------------------------------------------------------------ history
\* The coins field of a stored document, 0 when the field is missing.
StoredCoins(d) == IF d.coins = Undefined THEN 0 ELSE Val(d.coins)

\* The awards and spends on document k that were answered {ok: true}.
AckedOn(k) == SelectSeq(acked, LAMBDA a : a.key = k)
AckedAwards(k, g) ==
  SelectSeq(acked, LAMBDA a : a.key = k /\ a.req.op = "partyResult"
                              /\ a.req.gameId = Some(g))
EventsOn(k) == SelectSeq(events, LAMBDA e : e.phone = k)

RECURSIVE SumCoins(_)
\* Sum of the coin amounts (coins || 0) requested by the awards of a history.
SumCoins(h) ==
  IF h = <<>> THEN 0 ELSE OrElse(Head(h).req.coins, 0) + SumCoins(Tail(h))

RECURSIVE SumAmounts(_)
\* Sum of the amount fields of a sequence of event records.
SumAmounts(es) == IF es = <<>> THEN 0 ELSE Head(es).amount + SumAmounts(Tail(es))

RECURSIVE MaxScore(_)
\* Largest score (score || 0) submitted by a non-empty history of awards.
MaxScore(h) ==
  IF Len(h) = 1 THEN OrElse(Head(h).req.score, 0)
  ELSE Max(OrElse(Head(h).req.score, 0), MaxScore(Tail(h)))

\* The signed amount the event of an acknowledged request must carry.
SignedAmount(r) ==
  IF r.op = "partyResult" THEN OrElse(r.coins, 0) ELSE 0 - Val(r.amount)

\* ------------------------------------------------------------ claims

\* C1: no lost updates on award. For every player key on which no spend has
\* committed, the stored balance equals the sum of the coin amounts of all
\* awards that committed, whatever their interleaving and retries.
C1_NoLostAwards ==
  \A k \in Keys :
    (\A n \in 1 .. Len(AckedOn(k)) : AckedOn(k)[n].req.op = "partyResult")
      => StoredCoins(players[k]) = SumCoins(AckedOn(k))

\* C1 witness: two awards of 2 coins ran concurrently on one key, the second
\* one committed on a retry after a conflict, and the balance is 4.
C1_Witness ==
  /\ Len(acked) = 2
  /\ \A n \in 1 .. 2 : acked[n].req.op = "partyResult" /\ acked[n].req.coins = Some(2)
  /\ acked[2].attempt = 2
  /\ acked[1].key = acked[2].key
  /\ StoredCoins(players[acked[1].key]) = 4

\* A step in which the spend transaction of slot i, with a positive amount,
\* ends with the answer of its commit (not given up after refused commits).
SpendConcludes(i) ==
  /\ tx[i].pc = "commit" /\ tx[i].req.op = "spend" /\ Val(tx[i].req.amount) > 0
  /\ tx'[i].pc = "idle"
  /\ last'.error # "contention"

\* C2: no joint overdraw. A spend of a positive amount is answered ok if and
\* only if the balance stored at the instant of its commit is at least the
\* amount, and then the stored balance drops by exactly the amount; so two
\* concurrent spends that would jointly overdraw cannot both succeed.
C2_SpendIffFunds ==
  [][\A i \in Procs :
       SpendConcludes(i) =>
         LET k == tx[i].key
             a == Val(tx[i].req.amount) IN
         /\ (last'.status = 200) <=> (StoredCoins(players[k]) >= a)
         /\ last'.status = 200 =>
              StoredCoins(players'[k]) = StoredCoins(players[k]) - a
         /\ last'.status # 200 => players' = players]_vars

\* C2 witness: a spend passed its check on a balance that a concurrent commit
\* has since lowered below its amount, and its commit is due.
C2_Witness ==
  \E i \in Procs :
    /\ tx[i].pc = "commit" /\ tx[i].req.op = "spend"
    /\ Val(tx[i].req.amount) > 0
    /\ Balance(tx[i].snap) >= Val(tx[i].req.amount)
    /\ StoredCoins(players[tx[i].key]) < Val(tx[i].req.amount)
    /\ \E n \in 1 .. Len(acked) : acked[n].req.op = "spend"

\* C3: ledger/log consistency. In every reachable state the coin balance of
\* every player record equals the sum of the amounts of the events committed
\* for that key (0 with no record and no event).
C3_LedgerMatchesLog ==
  \A k \in Keys : StoredCoins(players[k]) = SumAmounts(EventsOn(k))

\* C3 witness: an award and a spend have both committed for a key whose
\* balance is not zero.
C3_Witness ==
  \E k \in Keys :
    /\ StoredCoins(players[k]) # 0
    /\ \E m, n \in 1 .. Len(EventsOn(k)) :
         EventsOn(k)[m].amount > 0 /\ EventsOn(k)[n].amount < 0
                                   /\ EventsOn(k)[n].score = Undefined

\* C4: exactly one event per committed mutation. The events are, in order,
\* those of the awards and spends answered ok: one each, for the same key,
\* with amount +coins for an award and -amount for a spend; requests that do
\* not commit, and attempts that are retried, add none.
C4_OneEventPerCommit ==
  /\ Len(events) = Len(acked)
  /\ \A n \in 1 .. Len(acked) :
       /\ n <= Len(events)
       /\ events[n].phone = acked[n].key
       /\ events[n].amount = SignedAmount(acked[n].req)
  /\ \A k \in Keys : Len(EventsOn(k)) = Len(AckedOn(k))

\* C4 witness: a spend that committed on a retry and an award have one event
\* each, while another request ended without committing.
C4_Witness ==
  /\ Len(acked) = 2 /\ Len(events) = 2
  /\ \E n \in 1 .. 2 : acked[n].req.op = "spend" /\ acked[n].attempt = 2
  /\ \E n \in 1 .. 2 : acked[n].req.op = "partyResult"
  /\ issued = MaxRequests
  /\ \A i \in Procs : tx[i].pc = "idle"

\* C5: insufficient funds leaves the state unchanged. When the concluding
\* attempt of a spend with a positive amount found balance < amount (0 with
\* no record), the answer is 400 "insufficient funds" and the player records
\* and the event log are as before.
C5_InsufficientFundsNoChange ==
  [][\A i \in Procs :
       (SpendConcludes(i) /\ Balance(tx[i].snap) < Val(tx[i].req.amount)) =>
         /\ last'.status = 400 /\ last'.error = "insufficient funds"
         /\ last'.op = "spend"
         /\ players' = players
         /\ events' = events
         /\ acked' = acked]_vars

\* C5 witness: a spend was answered 400 "insufficient funds" on a record that
\* holds a positive balance smaller than the amount.
C5_Witness ==
  /\ last.op = "spend" /\ last.status = 400
  /\ last.error = "insufficient funds"
  /\ \E k \in Keys : last.phone = Some(k) /\ players[k].exists
                     /\ StoredCoins(players[k]) > 0
                     /\ StoredCoins(players[k]) < Val(last.amount)

\* C6: per-key serializability. The player records always equal those obtained
\* by applying the committed requests one at a time in commit order, and each
\* commit answers the status the serial application answers.
C6_Serializable ==
  /\ [](players = serial.docs)
  /\ [][serial'.n # serial.n => last'.status = serial'.status]_vars

\* C6 witness: three requests on one key committed, one of them a spend that
\* was rejected on a retry after a concurrent commit took the funds.
C6_Witness ==
  /\ serial.n = 3
  /\ \E n \in 1 .. Len(acked) : acked[n].req.op = "spend"
  /\ last.op = "spend" /\ last.status = 400
  /\ last.error = "insufficient funds"
  /\ Len(acked) = 2

\* C7: bestScore equals the maximum submitted score. For every player key
\* and game with at least one committed award, the stored bestScore is the
\* largest score submitted by those awards (a missing score counts as 0),
\* negative scores included.
C7_BestScoreIsMax ==
  \A k \in Keys : \A g \in Games :
    AckedAwards(k, g) # <<>> =>
      players[k].bestScore[g] = Some(MaxScore(AckedAwards(k, g)))

\* C8: bestScore is monotonic. No step lowers (or removes) a stored bestScore,
\* and the stored lastScore of a game is always the score of the most recently
\* committed award for that game.
C8_BestScoreMonotonic ==
  /\ [][\A k \in Keys : \A g \in Games :
          players[k].bestScore[g] # Undefined =>
            /\ players'[k].bestScore[g] # Undefined
            /\ Val(players'[k].bestScore[g]) >= Val(players[k].bestScore[g])]_vars
  /\ [](\A k \in Keys : \A g \in Games :
          LET h == AckedAwards(k, g) IN
          IF h = <<>> THEN players[k].lastScore[g] = Undefined
          ELSE players[k].lastScore[g] = Some(OrElse(h[Len(h)].req.score, 0)))

\* The amount of a spend request is missing, zero or negative.
NonPositive(amount) == FalsyNum(amount) \/ Val(amount) < 0

\* C9: spend input validation. A spend whose amount is missing, zero or
\* negative is answered 400 before any transaction runs: no transaction is
\* ever in flight for such a spend, none is ever acknowledged, and so a
\* negative amount never credits the balance.  (The answer is looked at for
\* requests whose phone gives a key, to keep the empty-key case of C10 apart.)
C9_SpendAmountValidated ==
  /\ \A i \in Procs :
       tx[i].req.op = "spend" => ~NonPositive(tx[i].req.amount)
  /\ (last.op = "spend" /\ NonPositive(last.amount)
        /\ normalizePhone(last.phone) # <<>>) => last.status = 400
  /\ \A n \in 1 .. Len(acked) :
       acked[n].req.op = "spend" => ~NonPositive(acked[n].req.amount)

\* The phone of a request is missing or normalizes to the empty string.
EmptyKey(phone) == FalsyPhone(phone) \/ normalizePhone(phone) = <<>>

\* C10: an empty key is rejected as InvalidInput. A register, award or spend
\* whose phone is missing or normalizes to "" is answered 400, and the step
\* that answers it changes no player record and no event.
C10_EmptyKeyRejected ==
  /\ []((last.op \in {"register", "partyResult", "spend"} /\ EmptyKey(last.phone))
          => last.status = 400)
  /\ [][(last' # last /\ last'.op # "none" /\ EmptyKey(last'.phone))
          => (players' = players /\ events' = events)]_vars


\* ------------------------------------------------ well-formed requests only
\* Requests on one key whose payloads pass validation, each presenting the
\* secret s to the gate.
WellFormedRequests(s) ==
  [register |->
     { Request("register", Some("Ann"), p, Undefined, Undefined, Undefined,
               Undefined, Undefined, s) : p \in { Some(<<"5">>) } },
   partyResult |->
     { Request("partyResult", Undefined, Some(<<"5">>), Some("run"), Some(2),
               c, Undefined, Undefined, s) : c \in { Some(2) } },
   spend |->
     { Request("spend", Undefined, Some(<<"5">>), Undefined, Undefined,
               Undefined, a, Undefined, s) : a \in { Some(1), Some(2) } },
   coins |->
     { Request("coins", Undefined, p, Undefined, Undefined, Undefined,
               Undefined, Undefined, s) : p \in { Some(<<"5">>) } }]

\* The handlers and the transaction steps, on the requests of the set rs.
NextOn(rs) ==
  \/ \E r \in rs.register : Register(r)
  \/ \E r \in rs.partyResult : PartyResult(r)
  \/ \E r \in rs.spend : Spend(r)
  \/ \E r \in rs.coins : GetCoins(r)
  \/ \E i \in Procs : TxGet(i)
  \/ \E i \in Procs : PartyCommit(i)
  \/ \E i \in Procs : SpendCommit(i)
  \/ \E i \in Procs : TxRetry(i)
  \/ \E i \in Procs : TxExhausted(i)

\* Every continuation of a running transaction is a promise the event loop
\* resolves: no step of a transaction in flight stays enabled for ever without
\* being taken.
Fairness ==
  \A i \in Procs :
    /\ WF_vars(TxGet(i))
    /\ WF_vars(PartyCommit(i))
    /\ WF_vars(SpendCommit(i))
    /\ WF_vars(TxRetry(i))
    /\ WF_vars(TxExhausted(i))

FairNext == NextOn(WellFormedRequests(NoSecret))

FairSpec == Init /\ [][FairNext]_vars /\ Fairness

\* The well-formed requests, presenting any of Secrets, with BIN_SECRET set or
\* not (Init).
GateNext == \E s \in Secrets : NextOn(WellFormedRequests(s))

GateSpec == Init /\ [][GateNext]_vars

\* ------------------------------------------------- normalizePhone on its own
\* Raw phones over a digit, "+" and a separator, up to MaxPhoneLen characters.
MaxPhoneLen == 2
PhoneChars == { "5", "+", "-" }
NormRawPhones ==
  { Undefined } \cup
  UNION { { Some(p) : p \in [1 .. n -> PhoneChars] } : n \in 1 .. MaxPhoneLen }
NormKeys == { normalizePhone(p) : p \in NormRawPhones } \ { <<>> }
NormRegisterRequests ==
  { Request("register", n, p, Undefined, Undefined, Undefined, Undefined,
            Undefined, NoSecret) : n \in Names, p \in NormRawPhones }

\* An empty store with a document slot for every key normalizePhone yields.
NormInit ==
  /\ players = [k \in NormKeys |-> NoDoc]
  /\ events = <<>>
  /\ tx = [i \in Procs |-> IdleTx]
  /\ issued = 0
  /\ last = Response(NoRequest, 0, "")
  /\ acked = <<>>
  /\ serial = NoSerial(NormKeys)
  /\ binSecret = Undefined

\* Registrations only: each one normalises its phone (line 53) and stores the
\* result as the document id and as the phone field.
NormNext == \E r \in NormRegisterRequests : Register(r)

NormSpec == NormInit /\ [][NormNext]_vars

\* The kept characters of p with every "+" after the first of them removed.
LeadingPlusOnly(p) ==
  LET kept == SelectSeq(p, KeepChar) IN
  IF kept = <<>> THEN <<>>
  ELSE <<Head(kept)>> \o SelectSeq(Tail(kept), LAMBDA c : c # "+")

\* C11: key normalisation output shape. The key under which an accepted
\* registration stored its record consists of the digits of the raw phone in
\* their order, preceded by "+" only if "+" is the first kept character (a
\* later "+" is stripped), and normalising a stored key returns it unchanged.
\* Violated: normalizePhone keeps every "+", so "5+" is stored under "5+".
C11_NormalizedShape ==
  /\ \A k \in DOMAIN players :
       players[k].exists =>
         /\ \A j \in 2 .. Len(k) : k[j] # "+"
         /\ players[k].phone = Some(k)
         /\ normalizePhone(Some(k)) = k
  /\ (last.op = "register" /\ last.status = 200) =>
       players[LeadingPlusOnly(Val(last.phone))].exists


\* ------------------------------------------------------- a sequential client
\* One client registers "555-0100" as Ann, is awarded (run, 10, 5) on
\* "5550100", then (run, 3, 2), then spends 7 and then 1; each request is sent
\* when the one before has been answered, and balance queries come in between.
MaxQueries == 3
ScenarioDashed == <<"5", "5", "5", "-", "0", "1", "0", "0">>
ScenarioPlain == <<"5", "5", "5", "0", "1", "0", "0">>
ScenarioPhones == { Some(ScenarioDashed), Some(ScenarioPlain) }
ScenarioKeys == { normalizePhone(p) : p \in ScenarioPhones }
ScenarioAward(p, score, coins) ==
  Request("partyResult", Undefined, p, Some("run"), Some(score), Some(coins),
          Undefined, Undefined, NoSecret)
ScenarioSpend(p, amount) ==
  Request("spend", Undefined, p, Undefined, Undefined, Undefined, Some(amount),
          Undefined, NoSecret)
\* The requests the client may send as its n-th; where the phone spelling is
\* not fixed, either one.
ScenarioRequests(n) ==
  IF n = 1
  THEN { Request("register", Some("Ann"), Some(ScenarioDashed), Undefined,
                 Undefined, Undefined, Undefined, Undefined, NoSecret) }
  ELSE IF n = 2 THEN { ScenarioAward(Some(ScenarioPlain), 10, 5) }
  ELSE IF n = 3 THEN { ScenarioAward(p, 3, 2) : p \in ScenarioPhones }
  ELSE IF n = 4 THEN { ScenarioSpend(p, 7) : p \in ScenarioPhones }
  ELSE IF n = 5 THEN { ScenarioSpend(p, 1) : p \in ScenarioPhones }
  ELSE {}

ScenarioInit ==
  /\ players = [k \in ScenarioKeys |-> NoDoc]
  /\ events = <<>>
  /\ tx = [i \in Procs |-> IdleTx]
  /\ issued = 0
  /\ last = Response(NoRequest, 0, "")
  /\ acked = <<>>
  /\ serial = NoSerial(ScenarioKeys)
  /\ binSecret = Undefined

\* Every request sent so far has been answered; serial.n counts them.
AllAnswered == \A i \in Procs : tx[i].pc = "idle"

ScenarioRegisters ==
  AllAnswered /\ \E r \in ScenarioRequests(serial.n + 1) :
                    r.op = "register" /\ RegisterRoute(r)
ScenarioAwards ==
  AllAnswered /\ \E r \in ScenarioRequests(serial.n + 1) :
                    r.op = "partyResult" /\ PartyResultRoute(r)
ScenarioSpends ==
  AllAnswered /\ \E r \in ScenarioRequests(serial.n + 1) :
                    r.op = "spend" /\ SpendRoute(r)
ScenarioQueries ==
  /\ AllAnswered
  /\ issued < serial.n + MaxQueries
  /\ \E p \in ScenarioPhones :
       CoinsRoute(Request("coins", Undefined, p, Undefined, Undefined,
                          Undefined, Undefined, Undefined, NoSecret))

ScenarioNext ==
  \/ ScenarioRegisters
  \/ ScenarioAwards
  \/ ScenarioSpends
  \/ ScenarioQueries
  \/ \E i \in Procs : TxGet(i)
  \/ \E i \in Procs : PartyCommit(i)
  \/ \E i \in Procs : SpendCommit(i)

ScenarioSpec == ScenarioInit /\ [][ScenarioNext]_vars

\* The balance the scenario states after the n-th request.
ScenarioBalance(n) == IF n = 0 THEN 0 ELSE <<0, 5, 7, 0, 0>>[n]

\* C16: end-to-end scenario with key aliasing. With n requests of the scenario
\* answered, the one record (both spellings of the phone give one key) has the
\* balance 0, 5, 7, 0, 0 for n = 1..5 and every balance query answers it;
\* from the first award on bestScore[run] is 10, after the second award
\* lastScore[run] is 3; the spend of 7 is answered ok and the spend of 1 is
\* answered 400 "insufficient funds".
\* Violated: after the award of score 3 the stored bestScore[run] is 3.
C16_Scenario ==
  /\ normalizePhone(Some(ScenarioDashed)) = normalizePhone(Some(ScenarioPlain))
  /\ \A k \in DOMAIN players :
       /\ StoredCoins(players[k]) = ScenarioBalance(serial.n)
       /\ serial.n >= 1 => players[k].exists /\ players[k].name = Some("Ann")
       /\ serial.n >= 2 => players[k].bestScore["run"] = Some(10)
       /\ serial.n >= 3 => players[k].lastScore["run"] = Some(3)
  /\ last.op = "coins" =>
       last.status = 200 /\ last.coins = Some(ScenarioBalance(serial.n))
  /\ serial.n = 4 => serial.status = 200
  /\ serial.n = 5 => serial.status = 400
  /\ (last.op = "spend" /\ serial.n = 5) => last.error = "insufficient funds"

\* ---------------------------------------------------------------- Spec, more
\* The step is a request answered by /register: a request arrives, the answer
\* is /register's and no transaction starts.
RegisterAnswers ==
  /\ issued' # issued /\ last'.op = "register"
  /\ \A i \in Procs : tx'[i].pc = tx[i].pc

\* C12: registration frame. A step in which /register answers leaves every
\* record's coin balance and per-game lastScore and bestScore as they were,
\* leaves the records of the other keys and the events untouched, and, when it
\* answers ok, the record of its key has the normalised phone and lastSource
\* "registration"; this under any interleaving with awards and spends.
C12_RegisterFrame ==
  [][ RegisterAnswers
      =>
      /\ events' = events
      /\ \A k \in DOMAIN players :
           /\ players'[k].coins = players[k].coins
           /\ players'[k].lastScore = players[k].lastScore
           /\ players'[k].bestScore = players[k].bestScore
           /\ players'[k].partyScores = players[k].partyScores
           /\ k # normalizePhone(last'.phone) => players'[k] = players[k]
      /\ last'.status = 200 =>
           /\ players'[normalizePhone(last'.phone)].exists
           /\ players'[normalizePhone(last'.phone)].phone =
                Some(normalizePhone(last'.phone))
           /\ players'[normalizePhone(last'.phone)].lastSource =
                Some("registration")
      /\ last'.status # 200 => players' = players ]_vars

\* C12 witness: a registration was answered ok on a record that holds coins
\* and a score while a transaction on the same key is in flight.
C12_Witness ==
  /\ last.op = "register" /\ last.status = 200
  /\ players[normalizePhone(last.phone)].coins # Undefined
  /\ players[normalizePhone(last.phone)].lastScore["run"] # Undefined
  /\ \E i \in Procs :
       tx[i].pc # "idle" /\ tx[i].key = normalizePhone(last.phone)

RECURSIVE SumSigned(_)
\* Net coins of a history of awards and spends answered ok.
SumSigned(h) ==
  IF h = <<>> THEN 0 ELSE SignedAmount(Head(h).req) + SumSigned(Tail(h))

\* The step is a request answered by GET /coins.
CoinsAnswers ==
  /\ issued' # issued /\ last'.op = "coins"
  /\ \A i \in Procs : tx'[i].pc = tx[i].pc

\* C13: the balance query is read-only and current. A step in which GET /coins
\* answers leaves the player records, the events and the transactions in
\* flight unchanged; when it answers 200 the coins it returns are the net of
\* the awards and spends answered ok on that key so far (so every one of them
\* is reflected), which is 0 when the key has no record or no coins field.
C13_QueryReadOnlyCurrent ==
  [][ CoinsAnswers
      =>
      /\ players' = players /\ events' = events /\ tx' = tx
      /\ last'.status = 200 =>
           LET k == normalizePhone(last'.phone) IN
           /\ last'.coins = Some(SumSigned(AckedOn(k)))
           /\ (~players[k].exists \/ players[k].coins = Undefined)
                => last'.coins = Some(0) ]_vars

\* C13 witness: a query answered 1 coin after an award and a spend had been
\* answered ok on its key.
C13_Witness ==
  /\ last.op = "coins" /\ last.status = 200 /\ last.coins = Some(1)
  /\ \E m, n \in 1 .. Len(AckedOn(normalizePhone(last.phone))) :
       /\ AckedOn(normalizePhone(last.phone))[m].req.op = "partyResult"
       /\ AckedOn(normalizePhone(last.phone))[n].req.op = "spend"

\* The step concludes the transaction in slot i.
TxConcludes(i) == tx[i].pc # "idle" /\ tx'[i].pc = "idle"

\* C14: bounded retry, no hang. Every award or spend whose transaction has
\* started concludes; the step that concludes it gives the one answer of that
\* request, which is ok with the event written, or an error with neither
\* record nor event written; no transaction runs more than MaxAttempts attempts,
\* and one that conflicted on its last attempt is answered 500 having written
\* nothing.
C14_BoundedRetry ==
  /\ \A i \in Procs : (tx[i].pc # "idle") ~> (tx[i].pc = "idle")
  /\ [](\A i \in Procs : tx[i].attempt <= MaxAttempts)
  /\ [][ \A i \in Procs :
           TxConcludes(i) =>
             /\ last'.op = tx[i].req.op /\ last'.phone = tx[i].req.phone
             /\ last'.status \in { 200, 400, 500 }
             /\ last'.status = 200 <=>
                  (Len(acked') = Len(acked) + 1 /\ Len(events') = Len(events) + 1)
             /\ last'.status # 200 =>
                  (players' = players /\ events' = events /\ acked' = acked)
             /\ (tx[i].conflict /\ tx[i].pc = "commit") =>
                  (last'.status = 500 /\ tx[i].attempt = MaxAttempts) ]_vars

\* C14 witness: a transaction that conflicted on every attempt has been
\* answered 500 and nothing of it is stored.
C14_Witness ==
  /\ last.status = 500 /\ last.error = "contention"
  /\ last.op \in { "partyResult", "spend" }
  /\ \A i \in Procs : tx[i].pc = "idle"
  /\ events = <<>>

\* C15: all-or-nothing commit. In every step other than a registration a
\* record changes only together with the append of exactly one event; an
\* appended event comes with its record write (the record of its key exists,
\* its balance moved by the event's amount, its lastSource is the event's
\* source); and no balance moves without an event being appended. So an
\* attempt that is retried, exhausted or failed leaves neither half behind.
C15_AllOrNothing ==
  [][ /\ (players' # players /\ ~RegisterAnswers)
           => Len(events') = Len(events) + 1
      /\ events' # events =>
           /\ Len(events') = Len(events) + 1
           /\ SubSeq(events', 1, Len(events)) = events
           /\ LET e == events'[Len(events')] IN
              /\ players'[e.phone].exists
              /\ StoredCoins(players'[e.phone])
                   = StoredCoins(players[e.phone]) + e.amount
              /\ players'[e.phone].lastSource = Some(e.source)
      /\ \A k \in DOMAIN players :
           StoredCoins(players'[k]) # StoredCoins(players[k])
             => events' # events ]_vars

\* C15 witness: one transaction committed its record and its event while
\* another, on the same key, was abandoned after its last attempt and left
\* nothing.
C15_Witness ==
  /\ last.status = 500 /\ last.error = "contention"
  /\ Len(events) = 1 /\ Len(acked) = 1
  /\ StoredCoins(players[acked[1].key]) = events[1].amount
  /\ events[1].amount # 0

\* C17: registration is idempotent. Whenever the request applied last is a
\* registration, applying the same registration once more to the record of its
\* key gives the record as it is; the stored name is the request's name, and
\* the empty string when the request has none, whatever name was there.
C17_RegisterIdempotent ==
  serial.req.op = "register" =>
    LET k == Val(serial.req.phone) IN
    /\ RegisterDoc(players[k], k, serial.req) = players[k]
    /\ RegisterDoc(RegisterDoc(players[k], k, serial.req), k, serial.req)
         = players[k]
    /\ players[k].name =
         IF serial.req.name \in { Undefined, Some("") } THEN Some("")
         ELSE serial.req.name

\* C17 witness: after a registration as Ann and an award on the record, a
\* registration without a name has set the name to the empty string.
C17_Witness ==
  /\ serial.req.op = "register" /\ serial.req.name = Undefined
  /\ serial.n = 3
  /\ players[Val(serial.req.phone)].name = Some("")
  /\ players[Val(serial.req.phone)].coins # Undefined

\* The secret s carries the configured secret neither as header nor as query
\* parameter.
NotPresented(s) == s.header # binSecret /\ s.query # binSecret

\* C18: the inbound gate precedes every core operation. With a secret
\* configured, no transaction starts for a request that does not present it,
\* and a step that answers such a request (of any of the four routes) answers
\* 401 and changes no record, no event and no running transaction; with no
\* secret configured no request is answered 401.
C18_GateFirst ==
  [][ /\ \A i \in Procs :
           (tx[i].pc = "idle" /\ tx'[i].pc # "idle" /\ binSecret # Undefined)
             => ~NotPresented(tx'[i].req.secret)
      /\ (issued' # issued /\ \A i \in Procs : tx'[i].pc = tx[i].pc) =>
           /\ (binSecret # Undefined /\ NotPresented(last'.secret)) =>
                /\ last'.status = 401 /\ last'.error = "unauthorized"
                /\ players' = players /\ events' = events /\ tx' = tx
                /\ acked' = acked
           /\ binSecret = Undefined => last'.status # 401 ]_vars

\* C18 witness: with the secret configured, a spend presenting a wrong secret
\* has been answered 401 after an award that presented the right one was
\* committed.
C18_Witness ==
  /\ binSecret = Some("s")
  /\ last.status = 401 /\ last.op = "spend"
  /\ last.secret = [header |-> Some("x"), query |-> Undefined]
  /\ Len(acked) = 1 /\ acked[1].req.secret.header = Some("s")
  /\ StoredCoins(players[acked[1].key]) = 2

\* C19: implicit non-negative balance. If every award answered ok gave a coin
\* amount >= 0 and every spend answered ok had a positive amount, then every
\* player's balance is >= 0, whatever the interleaving of registrations,
\* awards and spends.
C19_NonNegativeBalance ==
  (\A n \in 1 .. Len(acked) :
     /\ acked[n].req.op = "partyResult" => OrElse(acked[n].req.coins, 0) >= 0
     /\ acked[n].req.op = "spend" => Val(acked[n].req.amount) > 0)
  => \A k \in DOMAIN players : StoredCoins(players[k]) >= 0

\* C19 witness: after an award of 2 coins, a spend of 2 that had to be retried
\* after a conflict committed and left the balance 0.
C19_Witness ==
  /\ Len(acked) = 2
  /\ acked[1].req.op = "partyResult" /\ acked[1].req.coins = Some(2)
  /\ acked[2].req.op = "spend" /\ acked[2].req.amount = Some(2)
  /\ acked[2].attempt = 2
  /\ StoredCoins(players[acked[2].key]) = 0

\* C20: event-log immutability. Every step (a registration, an award, a spend
\* or a balance query answering, an attempt committing, being retried or
\* abandoned) leaves the events written so far in place and unchanged: the
\* events before the step are a prefix of the events after it.
C20_EventsAppendOnly ==
  [][ /\ Len(events') >= Len(events)
      /\ \A n \in 1 .. Len(events) :
           n <= Len(events') /\ events'[n] = events[n] ]_vars

\* C20 witness: two different events are in the log, and a registration on
\* their key has been answered after they were written.
C20_Witness ==
  /\ Len(events) = 2 /\ events[1] # events[2]
  /\ events[1].phone = events[2].phone
  /\ last.op = "register" /\ last.status = 200
  /\ normalizePhone(last.phone) = events[1].phone

====
